---------------------------- MODULE Spec2Model ----------------------------
(***************************************************************************)
(* Model of the two notebooks of Electromagnetism-Applets:                 *)
(*                                                                         *)
(*   faradays_law_simulation/Faraday's Law Simulation.ipynb                *)
(*       faraday_simulation(v, A, B0, L, N, duration)                      *)
(*   lorentz_force/Lorentz-test-Final.ipynb                                *)
(*       particle_trajectory(B, v_perp, v_parallel, t_max, num_points)     *)
(*                                                                         *)
(* Arithmetic.  The notebooks compute with IEEE doubles.  The model        *)
(* computes with exact numbers, so rounding, overflow and underflow of     *)
(* doubles are outside it; the special values NaN and +-inf that numpy     *)
(* produces on a division by zero are inside it.                           *)
(*   - A rational is a pair <<n, d>> in lowest terms with d > 0.           *)
(*   - A numpy element before np.exp is an "extended rational": a record   *)
(*     [k |-> "fin", v |-> rational], [k |-> "nan"] or                     *)
(*     [k |-> "inf", s |-> 1 or -1].                                       *)
(*   - A numpy element after np.exp is an "exponential sum": a finite set  *)
(*     of terms [c |-> rational, p |-> rational] standing for              *)
(*     SUM c * e^p, with distinct p and nonzero c.  The numbers e^p for    *)
(*     distinct rational p are linearly independent over the rationals     *)
(*     (Lindemann-Weierstrass), so two such sums are equal as real numbers *)
(*     exactly when they are equal as sets.                                *)
(*   - np.cos and np.sin are evaluated exactly on the lattice of angles    *)
(*     k * atan(4/3), k an integer, where cos and sin are rational         *)
(*     (cos = 3/5, sin = 4/5 for k = 1).  Angles are therefore measured in *)
(*     units of atan(4/3) rad; see the units of the Lorentz notebook       *)
(*     below.                                                              *)
(***************************************************************************)
EXTENDS Integers, Sequences, FiniteSets, TLC

VARIABLES
    q,        \* Lorentz notebook, module global: charge of the particle
    m,        \* Lorentz notebook, module global: mass of the particle
    calls,    \* the invocations made so far, oldest first
    sliders   \* the notebook on display and the current values of its sliders

vars == <<q, m, calls, sliders>>

---------------------------------------------------------------------------
(* Bounds of the explored inputs.                                          *)

\* durations explored: k / 200 s for k in -2 .. MaxDurationTicks
MaxDurationTicks == 12
\* num_points explored: -1 .. MaxPoints
MaxPoints == 4
\* t_max explored: k * TimeQuantum for k in -2 .. MaxTimeTicks
MaxTimeTicks == 4
\* largest lattice angle |k| at which np.cos / np.sin are evaluated
MaxAngle == 4
\* number of past invocations kept when invocations are compared
MaxCalls == 3

---------------------------------------------------------------------------
(* Exact rational arithmetic (Python float and numpy float64 arithmetic    *)
(* without rounding).                                                      *)

Abs(a) == IF a < 0 THEN -a ELSE a

RECURSIVE GCD(_, _)
GCD(a, b) == IF b = 0 THEN a ELSE GCD(b, a % b)

\* the rational n/d, d # 0, in lowest terms with a positive denominator
Rat(n, d) ==
    LET g == GCD(Abs(n), Abs(d))
        s == IF d < 0 THEN -1 ELSE 1
    IN  <<(s * n) \div g, (s * d) \div g>>

Int2Rat(n) == <<n, 1>>
Zero == Int2Rat(0)
One == Int2Rat(1)

RIsZero(a) == a[1] = 0
RSign(a) == IF a[1] > 0 THEN 1 ELSE IF a[1] < 0 THEN -1 ELSE 0
RNeg(a) == <<-a[1], a[2]>>

\* a * b, reducing across before multiplying
RMul(a, b) ==
    LET g1 == GCD(Abs(a[1]), b[2])
        g2 == GCD(Abs(b[1]), a[2])
    IN  IF a[1] = 0 \/ b[1] = 0 THEN Zero
        ELSE <<(a[1] \div g1) * (b[1] \div g2), (a[2] \div g2) * (b[2] \div g1)>>

\* 1 / b, b # 0
RInv(b) == IF b[1] < 0 THEN <<-b[2], -b[1]>> ELSE <<b[2], b[1]>>

\* a / b, b # 0
RDiv(a, b) == RMul(a, RInv(b))

\* a + b over the least common denominator
RAdd(a, b) ==
    LET g == GCD(a[2], b[2])
        l == (a[2] \div g) * b[2]
    IN  Rat(a[1] * (l \div a[2]) + b[1] * (l \div b[2]), l)

RSub(a, b) == RAdd(a, RNeg(b))
RSq(a) == RMul(a, a)
RLt(a, b) == RSign(RSub(a, b)) < 0
RLeq(a, b) == RSign(RSub(a, b)) <= 0

\* the least integer >= a
RCeil(a) == -((-a[1]) \div a[2])

---------------------------------------------------------------------------
(* numpy float64 elements before np.exp: extended rationals.               *)

Fin(r) == [k |-> "fin", v |-> r]
NaN == [k |-> "nan"]
Inf(s) == [k |-> "inf", s |-> s]

\* the variant that returns 0 on a zero divisor
np_true_divide_zero(a, b) == IF RIsZero(b) THEN Fin(Zero) ELSE Fin(RDiv(a, b))

\* ndarray / Python float: numpy does not raise on a zero divisor, it
\* yields nan for 0/0 and a signed infinity otherwise (with a RuntimeWarning)
np_true_divide(a, b) ==
    IF RIsZero(b)
    THEN IF RIsZero(a) THEN NaN ELSE Inf(RSign(a))
    ELSE Fin(RDiv(a, b))

---------------------------------------------------------------------------
(* numpy float64 elements after np.exp: exponential sums, nan, +-inf.      *)

ETerm(c, p) == IF RIsZero(c) THEN {} ELSE {[c |-> c, p |-> p]}
EZero == {}
ERat(r) == ETerm(r, Zero)
ECoef(E, p) == IF \E t \in E : t.p = p THEN (CHOOSE t \in E : t.p = p).c ELSE Zero
EScale(E, r) == IF RIsZero(r) THEN {} ELSE {[c |-> RMul(t.c, r), p |-> t.p] : t \in E}
EAdd(E, F) ==
    LET ps == {t.p : t \in E \cup F}
    IN  UNION {ETerm(RAdd(ECoef(E, p), ECoef(F, p)), p) : p \in ps}
ESub(E, F) == EAdd(E, EScale(F, Int2Rat(-1)))

XFin(E) == [k |-> "fin", v |-> E]

\* np.exp on one element
np_exp(a) ==
    CASE a.k = "nan" -> NaN
      [] a.k = "inf" -> IF a.s > 0 THEN Inf(1) ELSE XFin(EZero)
      [] OTHER       -> XFin(ETerm(One, a.v))

\* element * finite Python float r
XScale(a, r) ==
    CASE a.k = "nan" -> NaN
      [] a.k = "inf" -> IF RIsZero(r) THEN NaN ELSE Inf(a.s * RSign(r))
      [] OTHER       -> XFin(EScale(a.v, r))

\* element - element
XSub(a, b) ==
    CASE a.k = "nan" \/ b.k = "nan" -> NaN
      [] a.k = "inf" /\ b.k = "inf" -> IF a.s = b.s THEN NaN ELSE Inf(a.s)
      [] a.k = "inf"                -> Inf(a.s)
      [] b.k = "inf"                -> Inf(-b.s)
      [] OTHER                      -> XFin(ESub(a.v, b.v))

XNeg(a) == XScale(a, Int2Rat(-1))


\* element / finite nonzero Python float r
XDivScalar(a, r) == XScale(a, RInv(r))

XIsNaN(a) == a.k = "nan"
XIsFinite(a) == a.k = "fin"

---------------------------------------------------------------------------
(* Faraday notebook.                                                       *)

\* dt = 0.01  # time step in seconds
dt == Rat(1, 100)

\* the slip of rounding the length down
np_arange_floor(stop, step) ==
    LET len == RDiv(stop, step)[1] \div RDiv(stop, step)[2]
        n   == IF len > 0 THEN len ELSE 0
    IN  [i \in 1..n |-> RMul(Int2Rat(i - 1), step)]

\* np.arange(0, stop, step), step > 0: ceil(stop / step) elements
\* 0, step, 2*step, ...; empty when stop <= 0
np_arange(stop, step) ==
    LET len == RCeil(RDiv(stop, step))
        n   == IF len > 0 THEN len ELSE 0
    IN  [i \in 1..n |-> RMul(Int2Rat(i - 1), step)]

\* the slip of a forward difference at every index but the last
np_gradient_forward(f, dx) ==
    LET n == Len(f)
    IN  [i \in 1..n |->
            IF i = n THEN XDivScalar(XSub(f[n], f[n - 1]), dx)
            ELSE XDivScalar(XSub(f[i + 1], f[i]), dx)]

\* np.gradient(f, dx) for a 1-d array and a scalar spacing, edge_order = 1:
\* central differences in the interior, one-sided differences at both ends.
\* Only called with Len(f) >= 2 (numpy raises ValueError otherwise).
np_gradient(f, dx) ==
    LET n == Len(f)
    IN  [i \in 1..n |->
            IF i = 1 THEN XDivScalar(XSub(f[2], f[1]), dx)
            ELSE IF i = n THEN XDivScalar(XSub(f[n], f[n - 1]), dx)
            ELSE XDivScalar(XSub(f[i + 1], f[i - 1]), RMul(Int2Rat(2), dx))]

\* the slip "x0 = L"
B_field_at_x0_L(xi, B0, L) ==
    LET x0    == L
        sigma == RDiv(L, Int2Rat(10))
    IN  XScale(np_exp(np_true_divide(RNeg(RSq(RSub(xi, x0))),
                                     RMul(Int2Rat(2), RSq(sigma)))),
               B0)

\* B_field = B0 * np.exp(-((x - x0)**2) / (2 * sigma**2)), one element
B_field_at(xi, B0, L) ==
    LET x0    == RDiv(L, Int2Rat(2))
        sigma == RDiv(L, Int2Rat(10))
    IN  XScale(np_exp(np_true_divide(RNeg(RSq(RSub(xi, x0))),
                                     RMul(Int2Rat(2), RSq(sigma)))),
               B0)

\* flux = B_field * A
flux_of(x, A, B0, L) == [i \in 1..Len(x) |-> XScale(B_field_at(x[i], B0, L), A)]

\* the slip "emf = N * np.gradient(flux, dt)"
emf_of_unsigned(flux, N) ==
    LET g == np_gradient(flux, dt)
    IN  [i \in 1..Len(g) |-> XScale(g[i], N)]

\* emf = -N * np.gradient(flux, dt)
emf_of(flux, N) ==
    LET g == np_gradient(flux, dt)
    IN  [i \in 1..Len(g) |-> XScale(g[i], RNeg(N))]

\* The body of faraday_simulation up to the plotting calls: the locals it
\* has computed when it hands t, flux and emf to the plot ("completed"), or
\* when np.gradient raises on a flux array of fewer than two elements
\* ("ValueError"; emf is then never bound).
faraday_simulation(v, A, B0, L, N, duration) ==
    LET t    == np_arange(duration, dt)
        x    == [i \in 1..Len(t) |-> RMul(v, t[i])]
        flux == flux_of(x, A, B0, L)
    IN  IF Len(flux) < 2
        THEN [outcome |-> "ValueError", t |-> t, flux |-> flux, emf |-> <<>>]
        ELSE [outcome |-> "completed", t |-> t, flux |-> flux,
              emf |-> emf_of(flux, N)]

---------------------------------------------------------------------------
(* Lorentz notebook.                                                       *)
(*                                                                         *)
(* Units.  Charge is counted in 1e-20 C and mass in 1e-33 kg, so that      *)
(* q = 1.6e-19 C is 16 and m = 9.11e-31 kg is 911.  Velocities are in      *)
(* 1e5 m/s, B in 1e-4 T and times in atan(4/3) * 1e-9 s, which makes       *)
(* omega * t, the argument of np.cos and np.sin, a number of lattice       *)
(* angles atan(4/3).                                                       *)

\* q = 1.6e-19  # Charge of Particle (C)
q_value == Int2Rat(16)
\* m = 9.11e-31  # Mass of Particle (kg)
m_value == Int2Rat(911)

\* (3 + 4i)^k as <<re, im>>, k >= 0
RECURSIVE GaussPow(_)
GaussPow(k) ==
    IF k = 0 THEN <<1, 0>>
    ELSE LET z == GaussPow(k - 1)
         IN  <<3 * z[1] - 4 * z[2], 4 * z[1] + 3 * z[2]>>

RECURSIVE Pow5(_)
Pow5(k) == IF k = 0 THEN 1 ELSE 5 * Pow5(k - 1)

\* whether theta is an angle of the lattice the model evaluates cos/sin on
OnLattice(theta) == theta[2] = 1 /\ Abs(theta[1]) <= MaxAngle

\* np.cos / np.sin of theta lattice angles: exact, since
\* cos(k a) + i sin(k a) = ((3 + 4i) / 5)^k for a = atan(4/3)
np_cos(theta) == Rat(GaussPow(Abs(theta[1]))[1], Pow5(Abs(theta[1])))
np_sin(theta) ==
    Rat(RSign(theta) * GaussPow(Abs(theta[1]))[2], Pow5(Abs(theta[1])))

\* np.linspace(0, stop, num), num >= 0 (numpy raises ValueError for num < 0):
\* num samples, step stop / (num - 1), the last one stop itself
np_linspace(stop, num) ==
    [i \in 1..num |->
        IF num = 1 THEN Zero
        ELSE IF i = num THEN stop
        ELSE RMul(Int2Rat(i - 1), RDiv(stop, Int2Rat(num - 1)))]

\* r = m * v_perp / (q * B)   (q * B # 0)
radius(v_perp, B) == RDiv(RMul(m, v_perp), RMul(q, B))
\* omega = q * B / m          (m # 0)
angular_velocity(B) == RDiv(RMul(q, B), m)

\* the slip "y = r * np.cos(omega * t)"
y_of_cos(r, omega, t) == [i \in 1..Len(t) |-> RMul(r, np_cos(RMul(omega, t[i])))]
\* the slip "z = -v_parallel * t"
z_of_negated(v_parallel, t) == [i \in 1..Len(t) |-> RNeg(RMul(v_parallel, t[i]))]

\* x = r * np.cos(omega * t)
x_of(r, omega, t) == [i \in 1..Len(t) |-> RMul(r, np_cos(RMul(omega, t[i])))]
\* y = r * np.sin(omega * t)
y_of(r, omega, t) == [i \in 1..Len(t) |-> RMul(r, np_sin(RMul(omega, t[i])))]
\* z = v_parallel * t
z_of(v_parallel, t) == [i \in 1..Len(t) |-> RMul(v_parallel, t[i])]

\* the variant that divides as numpy does: no exception on B = 0, nan
\* coordinates returned
particle_trajectory_numpy_division(B, v_perp, v_parallel, t_max, num_points) ==
    LET n == IF num_points < 0 THEN 0 ELSE num_points
    IN  [outcome |-> "returned", r |-> <<>>, omega |-> <<>>,
         t |-> np_linspace(t_max, n),
         x |-> [i \in 1..n |-> "nan"],
         y |-> [i \in 1..n |-> "nan"],
         z |-> z_of(v_parallel, np_linspace(t_max, n))]

\* particle_trajectory: "returned" with the arrays x, y, z (and the locals
\* r, omega, t), or the exception that ends the call: Python's float
\* division raises ZeroDivisionError on a zero divisor, np.linspace raises
\* ValueError on a negative number of samples.  A local not yet bound when
\* the exception is raised is <<>>.
particle_trajectory(B, v_perp, v_parallel, t_max, num_points) ==
    IF RIsZero(RMul(q, B)) \/ RIsZero(m)
    THEN [outcome |-> "ZeroDivisionError", r |-> <<>>, omega |-> <<>>,
          t |-> <<>>, x |-> <<>>, y |-> <<>>, z |-> <<>>]
    ELSE LET r     == radius(v_perp, B)
             omega == angular_velocity(B)
         IN  IF num_points < 0
             THEN [outcome |-> "ValueError", r |-> r, omega |-> omega,
                   t |-> <<>>, x |-> <<>>, y |-> <<>>, z |-> <<>>]
             ELSE LET t == np_linspace(t_max, num_points)
                  IN  [outcome |-> "returned", r |-> r, omega |-> omega,
                       t |-> t,
                       x |-> x_of(r, omega, t),
                       y |-> y_of(r, omega, t),
                       z |-> z_of(v_parallel, t)]

---------------------------------------------------------------------------
(* Inputs.                                                                 *)

\* t_max = k * TimeQuantum turns the field B through B * k lattice angles
TimeQuantum == RDiv(m_value, q_value)

FaradayInputs ==
    [v : {Int2Rat(1), Int2Rat(2)},
     A : {Int2Rat(1), Int2Rat(2)},
     B0 : {Int2Rat(1), Int2Rat(3)},
     L : {Rat(k, 25) : k \in -1..2},
     N : {Int2Rat(k) : k \in {-1, 0, 2}},
     duration : {Rat(k, 200) : k \in -2..MaxDurationTicks}]

\* the angles omega * t_i a call evaluates np.cos and np.sin at
TrajectoryAngles(a) ==
    IF RIsZero(RMul(q_value, a.B)) \/ a.num_points < 0 THEN <<>>
    ELSE LET t == np_linspace(a.t_max, a.num_points)
         IN  [i \in 1..Len(t) |->
                 RMul(RDiv(RMul(q_value, a.B), m_value), t[i])]

TrajectoryInputs ==
    {a \in [B : {Int2Rat(k) : k \in -1..2},
            v_perp : {Int2Rat(k) : k \in 0..2},
            v_parallel : {Int2Rat(k) : k \in -1..1},
            t_max : {RMul(Int2Rat(k), TimeQuantum) : k \in -2..MaxTimeTicks},
            num_points : -1..MaxPoints] :
        \A i \in 1..Len(TrajectoryAngles(a)) : OnLattice(TrajectoryAngles(a)[i])}

---------------------------------------------------------------------------
(* The sliders.  Each FloatSlider is declared with min, max, step and its  *)
(* initial value.  Lorentz sliders are in the units of the Lorentz         *)
(* notebook above (B in 1e-4 T, v_perp and v_parallel in 1e5 m/s), the     *)
(* Faraday sliders in SI units.                                            *)

FloatSlider(min, max, step, value) ==
    [min |-> min, max |-> max, step |-> step, value |-> value]

\* the variant "min=0" of the B slider
B_slider_min_0 == FloatSlider(Zero, Int2Rat(50), One, Int2Rat(10))

\* B_slider = FloatSlider(min=1e-4, max=5e-3, step=1e-4, value=1e-3)
B_slider == FloatSlider(One, Int2Rat(50), One, Int2Rat(10))
\* v_perp_slider = FloatSlider(min=1e5, max=5e6, step=1e5, value=1e6)
v_perp_slider == FloatSlider(One, Int2Rat(50), One, Int2Rat(10))
\* v_parallel_slider = FloatSlider(min=0, max=1e6, step=1e4, value=2e5)
v_parallel_slider == FloatSlider(Zero, Int2Rat(10), Rat(1, 10), Int2Rat(2))

\* interactive(plot_trajectory, B=..., v_perp=..., v_parallel=...)
LorentzSliders ==
    [B |-> B_slider, v_perp |-> v_perp_slider, v_parallel |-> v_parallel_slider]

\* interact(faraday_simulation, v=FloatSlider(min=0.1, max=5.0, step=0.1,
\* value=1.0), A=..., B0=..., L=..., N=..., duration=...)
FaradaySliders ==
    [v        |-> FloatSlider(Rat(1, 10), Int2Rat(5), Rat(1, 10), One),
     A        |-> FloatSlider(Rat(1, 10), Int2Rat(5), Rat(1, 10), One),
     B0       |-> FloatSlider(Rat(1, 10), Int2Rat(10), Rat(1, 10), One),
     L        |-> FloatSlider(Rat(1, 10), Int2Rat(10), Rat(1, 10), One),
     N        |-> FloatSlider(One, Int2Rat(500), One, Int2Rat(100)),
     duration |-> FloatSlider(One, Int2Rat(10), Rat(1, 2), Int2Rat(2))]

\* the sliders a notebook declares
Declared(notebook) == IF notebook = "lorentz" THEN LorentzSliders ELSE FaradaySliders

\* the values the sliders show when their cell has just been run
ValuesOf(declared) == [name \in DOMAIN declared |-> declared[name].value]

\* no notebook has run its widget cell: no slider exists
NoSliders == [notebook |-> "none", values |-> [name \in {} |-> Zero]]

\* a FloatSlider keeps its value inside [min, max]: a value set below min
\* becomes min, a value set above max becomes max
Clamp(slider, requested) ==
    IF RLt(requested, slider.min) THEN slider.min
    ELSE IF RLt(slider.max, requested) THEN slider.max
    ELSE requested

\* the values a slider is asked to take: one step below its min, zero, a
\* negative value, its initial value, one step above its max
Requests(slider) ==
    {RSub(slider.min, slider.step), Zero, Int2Rat(-1),
     slider.value, RAdd(slider.max, slider.step)}

\* def particle_trajectory(..., t_max=1e-6, num_points=500)
num_points_default == 500

\* how a call of particle_trajectory ends, which its arrays do not decide:
\* ZeroDivisionError at r = m * v_perp / (q * B), ValueError in np.linspace
particle_trajectory_outcome(B, num_points) ==
    IF RIsZero(RMul(q, B)) \/ RIsZero(m) THEN "ZeroDivisionError"
    ELSE IF num_points < 0 THEN "ValueError"
    ELSE "returned"

\* plot_trajectory(B, v_perp, v_parallel): particle_trajectory with its
\* default t_max and num_points, then the plot; an exception of
\* particle_trajectory ends the callback.  The 500 samples themselves are
\* not computed here: the default t_max is no multiple of TimeQuantum.
plot_trajectory(B, v_perp, v_parallel) ==
    [outcome |-> particle_trajectory_outcome(B, num_points_default),
     samples |-> IF particle_trajectory_outcome(B, num_points_default) = "returned"
                 THEN num_points_default ELSE 0]

\* the number of elements of np.arange(0, duration, dt)
sample_count(duration) ==
    IF RCeil(RDiv(duration, dt)) > 0 THEN RCeil(RDiv(duration, dt)) ELSE 0

\* how a call of faraday_simulation ends and how many samples its time grid
\* has, without the waveform: ValueError from np.gradient on fewer than two
faraday_simulation_outcome(v, A, B0, L, N, duration) ==
    [outcome |-> IF sample_count(duration) < 2 THEN "ValueError" ELSE "completed",
     samples |-> sample_count(duration)]

---------------------------------------------------------------------------
(* The notebooks as a state machine: each step is one whole invocation.    *)

Init ==
    /\ q = q_value
    /\ m = m_value
    /\ calls = <<>>
    /\ sliders = NoSliders

\* record an invocation; a behaviour holds at most W of them
Remember(call, W) ==
    /\ Len(calls) < W
    /\ calls' = Append(calls, call)

FaradayCall(a, W) ==
    /\ Remember([fn |-> "faraday_simulation", args |-> a,
                 res |-> faraday_simulation(a.v, a.A, a.B0, a.L, a.N, a.duration)],
                W)
    /\ UNCHANGED <<q, m, sliders>>

\* the variant in which the call rebinds the module global q
TrajectoryCall_rebinds_q(a, W) ==
    /\ Remember([fn |-> "particle_trajectory", args |-> a,
                 res |-> particle_trajectory(a.B, a.v_perp, a.v_parallel,
                                             a.t_max, a.num_points)],
                W)
    /\ q' = RMul(q, Int2Rat(2))
    /\ UNCHANGED <<m, sliders>>

TrajectoryCall(a, W) ==
    /\ Remember([fn |-> "particle_trajectory", args |-> a,
                 res |-> particle_trajectory(a.B, a.v_perp, a.v_parallel,
                                             a.t_max, a.num_points)],
                W)
    /\ UNCHANGED <<q, m, sliders>>

InvokeFaraday == \E a \in FaradayInputs : FaradayCall(a, 1)
InvokeTrajectory == \E a \in TrajectoryInputs : TrajectoryCall(a, 1)

Next == InvokeFaraday \/ InvokeTrajectory

\* one invocation per behaviour, over all the inputs
Spec == Init /\ [][Next]_vars

\* the inputs of the behaviours that make several invocations
SeqFaradayInputs ==
    [v : {Int2Rat(1)}, A : {Int2Rat(2)}, B0 : {Int2Rat(3)},
     L : {Zero, Rat(1, 25)}, N : {Int2Rat(2)},
     duration : {Zero, Rat(1, 40), Rat(1, 20)}]

SeqTrajectoryInputs ==
    [B : {Int2Rat(0), Int2Rat(1), Int2Rat(2)},
     v_perp : {Int2Rat(1)}, v_parallel : {Int2Rat(1)},
     t_max : {RMul(Int2Rat(2), TimeQuantum)},
     num_points : {-1, 3}]

SeqInvokeFaraday == \E a \in SeqFaradayInputs : FaradayCall(a, MaxCalls)
SeqInvokeTrajectory == \E a \in SeqTrajectoryInputs : TrajectoryCall(a, MaxCalls)

NextSeq == SeqInvokeFaraday \/ SeqInvokeTrajectory

\* up to MaxCalls invocations per behaviour, in any order
SpecSeq == Init /\ [][NextSeq]_vars

\* The widget host.  The two notebooks are separate documents with separate
\* kernels, so one of them is on display at a time.  Running its widget
\* cell creates its sliders at their initial values and invokes the
\* callback once; every change of a slider stores the clamped value and
\* invokes the callback with the current values of all the sliders of the
\* notebook.  Only the latest callback is kept, with what caused it.
Callback(notebook, values, cause) ==
    IF notebook = "lorentz"
    THEN [fn |-> "plot_trajectory", args |-> values, cause |-> cause,
          res |-> plot_trajectory(values.B, values.v_perp, values.v_parallel)]
    ELSE [fn |-> "faraday_simulation", args |-> values, cause |-> cause,
          res |-> faraday_simulation_outcome(values.v, values.A, values.B0,
                                             values.L, values.N, values.duration)]

RunCell(notebook) ==
    /\ sliders' = [notebook |-> notebook, values |-> ValuesOf(Declared(notebook))]
    /\ calls' = <<Callback(notebook, ValuesOf(Declared(notebook)),
                           [slider |-> "none", requested |-> Zero])>>
    /\ IF notebook = "lorentz"
       THEN q' = q_value /\ m' = m_value
       ELSE UNCHANGED <<q, m>>

SliderChange(name, requested) ==
    LET notebook == sliders.notebook
        values == [sliders.values EXCEPT
                      ![name] = Clamp(Declared(notebook)[name], requested)]
    IN  /\ values # sliders.values
        /\ sliders' = [sliders EXCEPT !.values = values]
        /\ calls' = <<Callback(notebook, values,
                               [slider |-> name, requested |-> requested])>>
        /\ UNCHANGED <<q, m>>

RunAnyCell == \E notebook \in {"lorentz", "faraday"} : RunCell(notebook)
ChangeAnySlider ==
    \E name \in DOMAIN sliders.values :
        \E requested \in Requests(Declared(sliders.notebook)[name]) :
            SliderChange(name, requested)

NextWidget == RunAnyCell \/ ChangeAnySlider

\* any sequence of cell runs and slider changes
SpecWidget == Init /\ [][NextWidget]_vars

\* the most recent invocation
last == calls[Len(calls)]
IsFaraday == Len(calls) > 0 /\ last.fn = "faraday_simulation"
IsTrajectory == Len(calls) > 0 /\ last.fn = "particle_trajectory"

---------------------------------------------------------------------------
(* Claims about particle_trajectory.                                       *)

TrajectoryReturned == IsTrajectory /\ last.res.outcome = "returned"

\* C1: particle_trajectory called with B = 0 (whatever v_perp, v_parallel,
\* t_max and num_points are) ends in an error, ZeroDivisionError, and
\* returns no x, y, z arrays at all, so none with infinite or NaN entries.
C1_ZeroFieldRaises ==
    (IsTrajectory /\ RIsZero(last.args.B)) =>
        /\ last.res.outcome = "ZeroDivisionError"
        /\ last.res.x = <<>> /\ last.res.y = <<>> /\ last.res.z = <<>>

\* a call with B = 0 that asked for samples has ended in ZeroDivisionError
C1_Witness ==
    /\ IsTrajectory
    /\ RIsZero(last.args.B)
    /\ ~RIsZero(last.args.v_perp)
    /\ last.args.num_points >= 2
    /\ last.res.outcome = "ZeroDivisionError"

\* C2: for nonzero B every returned sample lies on the cylinder of radius
\* r = m * v_perp / (q * B), q = 1.6e-19, m = 9.11e-31:
\* x_i^2 + y_i^2 = r^2.  For r # 0 the equation is checked divided by r^2,
\* (x_i / r)^2 + (y_i / r)^2 = 1, which is the same equation and keeps the
\* numbers inside TLC's integers; for r = 0 it is x_i = y_i = 0.
C2_OnCylinder ==
    (TrajectoryReturned /\ ~RIsZero(last.args.B)) =>
        LET r == RDiv(RMul(Int2Rat(911), last.args.v_perp),
                      RMul(Int2Rat(16), last.args.B))
        IN  /\ Len(last.res.x) = last.args.num_points
            /\ Len(last.res.y) = last.args.num_points
            /\ \A i \in 1..last.args.num_points :
                  IF RIsZero(r)
                  THEN RIsZero(last.res.x[i]) /\ RIsZero(last.res.y[i])
                  ELSE RAdd(RSq(RDiv(last.res.x[i], r)),
                            RSq(RDiv(last.res.y[i], r))) = One

\* a returned trajectory of nonzero radius that has turned away from its
\* starting point
C2_Witness ==
    /\ TrajectoryReturned
    /\ ~RIsZero(last.args.v_perp)
    /\ last.args.num_points >= 3
    /\ \E i \in 1..Len(last.res.x) :
          /\ last.res.x[i] # last.res.x[1]
          /\ ~RIsZero(last.res.x[i])
          /\ ~RIsZero(last.res.y[i])

\* z_i = v_parallel * t_i, and the same for the increments
ZLinear ==
    LET t == last.res.t
        z == last.res.z
    IN  /\ Len(z) = Len(t)
        /\ \A i \in 1..Len(t) : z[i] = RMul(last.args.v_parallel, t[i])
        /\ \A i \in 1..(Len(t) - 1) :
              RSub(z[i + 1], z[i]) =
                  RMul(last.args.v_parallel, RSub(t[i + 1], t[i]))

ZNonDecreasing ==
    \A i \in 1..(Len(last.res.z) - 1) : RLeq(last.res.z[i], last.res.z[i + 1])

\* C4 as claimed: z_i = v_parallel * t_i for every sample, and z is
\* non-decreasing whenever v_parallel >= 0.
C4_Original ==
    TrajectoryReturned =>
        /\ ZLinear
        /\ (RSign(last.args.v_parallel) >= 0 => ZNonDecreasing)

\* C4 as amended: z_i = v_parallel * t_i for every sample, and z is
\* non-decreasing whenever v_parallel >= 0 and t_max >= 0.
C4_ZLinearMonotone ==
    TrajectoryReturned =>
        /\ ZLinear
        /\ (RSign(last.args.v_parallel) >= 0 /\ RSign(last.args.t_max) >= 0
                => ZNonDecreasing)

\* a returned trajectory that climbs strictly along z
C4_Witness ==
    /\ TrajectoryReturned
    /\ RSign(last.args.v_parallel) > 0
    /\ RSign(last.args.t_max) > 0
    /\ Len(last.res.z) >= 3
    /\ RLt(last.res.z[1], last.res.z[2])

---------------------------------------------------------------------------
(* Claims about faraday_simulation.                                        *)

FaradayCompleted == IsFaraday /\ last.res.outcome = "completed"

\* the indices of the samples taken at the moment the magnet is centred on
\* the coil, v * t = L / 2 (at most one)
CentreSamples ==
    {i \in 1..Len(last.res.t) :
        RMul(last.args.v, last.res.t[i]) = RDiv(last.args.L, Int2Rat(2))}

PositiveVABL ==
    /\ RSign(last.args.v) > 0 /\ RSign(last.args.A) > 0
    /\ RSign(last.args.B0) > 0 /\ RSign(last.args.L) > 0

AllSixPositive ==
    /\ PositiveVABL
    /\ RSign(last.args.N) > 0 /\ RSign(last.args.duration) > 0

\* the value B0 * A
PeakFlux == XFin(ERat(RMul(last.args.B0, last.args.A)))

\* a <= b, decided for the values c * e^p with c > 0 that a flux sample
\* takes: c_a <= c_b and p_a <= p_b imply c_a * e^(p_a) <= c_b * e^(p_b)
FluxLeq(a, b) ==
    /\ XIsFinite(a) /\ XIsFinite(b)
    /\ Cardinality(a.v) = 1 /\ Cardinality(b.v) = 1
    /\ \A ta \in a.v : \A tb \in b.v :
          RSign(ta.c) > 0 /\ RLeq(ta.c, tb.c) /\ RLeq(ta.p, tb.p)

FluxLt(a, b) == FluxLeq(a, b) /\ a # b

\* C3 as claimed: for v > 0 and positive A, B0, L the flux waveform has a
\* sample at t = L / (2 v), its value is B0 * A, and no sample is larger.
C3_Original ==
    (FaradayCompleted /\ PositiveVABL) =>
        \E i \in CentreSamples :
            /\ last.res.flux[i] = PeakFlux
            /\ \A j \in 1..Len(last.res.flux) :
                  FluxLeq(last.res.flux[j], last.res.flux[i])

\* C3 as amended: for v > 0 and positive A, B0, L, if t = L / (2 v) is one
\* of the sample times then the flux there is B0 * A and no sample is
\* larger; every sample taken at another time is strictly below B0 * A, so
\* a waveform without that sample time never reaches B0 * A.
C3_FluxPeakAtCentre ==
    (IsFaraday /\ PositiveVABL) =>
        \A i \in 1..Len(last.res.flux) :
            IF i \in CentreSamples
            THEN /\ last.res.flux[i] = PeakFlux
                 /\ \A j \in 1..Len(last.res.flux) :
                       FluxLeq(last.res.flux[j], last.res.flux[i])
            ELSE FluxLt(last.res.flux[i], PeakFlux)

\* a completed waveform whose centre sample lies strictly inside the grid
C3_Witness ==
    /\ FaradayCompleted /\ PositiveVABL
    /\ \E i \in CentreSamples :
          /\ 1 < i /\ i < Len(last.res.flux)
          /\ last.res.flux[i] = PeakFlux
          /\ last.res.flux[i - 1] # PeakFlux

\* t_i = i * dt for i = 0 .. n-1 with dt = 0.01, every t_i < duration
GridSteps ==
    /\ dt = Rat(1, 100)
    /\ \A i \in 1..Len(last.res.t) :
          /\ last.res.t[i] = RMul(Int2Rat(i - 1), dt)
          /\ RLt(last.res.t[i], last.args.duration)

\* flux has one element per sample time, and so has emf once it is computed
WaveformLengths ==
    /\ Len(last.res.flux) = Len(last.res.t)
    /\ last.res.outcome = "completed" => Len(last.res.emf) = Len(last.res.t)

C6_EmfIsScaledGradient ==
    (IsFaraday /\ Len(last.res.flux) >= 2) =>
        LET f    == last.res.flux
            e    == last.res.emf
            n    == Len(f)
            mN   == RNeg(last.args.N)
            step == Rat(1, 100)
        IN  /\ last.res.outcome = "completed"
            /\ Len(e) = n
            /\ XScale(e[1], step) = XScale(XSub(f[2], f[1]), mN)
            /\ XScale(e[n], step) = XScale(XSub(f[n], f[n - 1]), mN)
            /\ \A i \in 2..(n - 1) :
                  XScale(e[i], RMul(Int2Rat(2), step)) =
                      XScale(XSub(f[i + 1], f[i - 1]), mN)

\* an EMF sequence with interior samples, computed from a flux that varies
C6_Witness ==
    /\ FaradayCompleted
    /\ Len(last.res.emf) >= 4
    /\ ~RIsZero(last.args.N)
    /\ XIsFinite(last.res.emf[2])
    /\ last.res.emf[2].v # EZero
    /\ last.res.emf[2] # last.res.emf[3]

\* emf_i = -emf_j
Opposite(i, j) == last.res.emf[i] = XNeg(last.res.emf[j])

IsZeroValue(a) == a = XFin(EZero)

\* C7 as claimed, on calls with positive parameters: the EMF is zero at
\* the centre sample, and the EMF values
\* of every two samples at equal distance before and after it are exact
\* negatives of each other.
C7_Original ==
    (FaradayCompleted /\ AllSixPositive) =>
        \A c \in CentreSamples :
            /\ IsZeroValue(last.res.emf[c])
            /\ \A d \in 1..Len(last.res.emf) :
                  (c - d >= 1 /\ c + d <= Len(last.res.emf))
                      => Opposite(c + d, c - d)

\* C7 as amended: the EMF is zero at the centre sample when that sample is
\* not the first or last of the grid, and the EMF values of two samples at
\* equal distance before and after it are exact negatives of each other when
\* both are interior samples or both are the end samples of the grid (a
\* pair of one end sample and one interior sample mixes a one-sided with a
\* central difference).
C7_EmfAntisymmetric ==
    FaradayCompleted =>
        LET n == Len(last.res.emf)
        IN  \A c \in CentreSamples :
                /\ (1 < c /\ c < n) => IsZeroValue(last.res.emf[c])
                /\ \A d \in 1..n :
                      (\/ 1 < c - d /\ c + d < n
                       \/ c - d = 1 /\ c + d = n)
                          => Opposite(c + d, c - d)

\* a centre sample with an interior pair of nonzero EMF around it
C7_Witness ==
    /\ FaradayCompleted
    /\ ~RIsZero(last.args.N)
    /\ \E c \in CentreSamples :
          /\ 1 < c - 1 /\ c + 1 < Len(last.res.emf)
          /\ ~IsZeroValue(last.res.emf[c + 1])
          /\ Opposite(c + 1, c - 1)

\* C8 as claimed: with all six parameters positive faraday_simulation runs
\* to completion and produces a flux and an EMF waveform, with no error.
C8_Original ==
    (IsFaraday /\ AllSixPositive) => last.res.outcome = "completed"

HasNaN(f) == \E i \in 1..Len(f) : XIsNaN(f[i])

\* C9 as claimed: for zero or negative L, N or duration the call reaches no
\* error and yields a degenerate waveform, NaN-valued or empty.
C9_Original ==
    (IsFaraday /\ (\/ RSign(last.args.L) <= 0
                   \/ RSign(last.args.N) <= 0
                   \/ RSign(last.args.duration) <= 0)) =>
        /\ last.res.outcome = "completed"
        /\ \/ Len(last.res.flux) = 0
           \/ HasNaN(last.res.flux)
           \/ HasNaN(last.res.emf)

\* C9 as amended: no input is validated.  For zero or negative L or N a call
\* with at least two time samples reaches no error: it completes, and its
\* waveform holds NaN values exactly when L = 0 (a negative L or a
\* non-positive N gives a finite waveform).  For zero or negative duration
\* the time grid is empty and the call ends in the ValueError of
\* np.gradient, before any EMF is computed.
C9_DegenerateInputs ==
    IsFaraday =>
        /\ (RSign(last.args.L) <= 0 \/ RSign(last.args.N) <= 0)
               /\ Len(last.res.t) >= 2
            => /\ last.res.outcome = "completed"
               /\ Len(last.res.flux) = Len(last.res.t)
               /\ Len(last.res.emf) = Len(last.res.t)
               /\ HasNaN(last.res.flux) <=> RIsZero(last.args.L)
               /\ HasNaN(last.res.emf) <=> RIsZero(last.args.L)
        /\ RSign(last.args.duration) <= 0
            => /\ last.res.outcome = "ValueError"
               /\ last.res.t = <<>> /\ last.res.flux = <<>>
               /\ last.res.emf = <<>>

\* a completed call with L = 0 whose waveform holds NaN beside finite values
C9_Witness ==
    /\ FaradayCompleted
    /\ RIsZero(last.args.L)
    /\ Len(last.res.flux) >= 3
    /\ XIsNaN(last.res.flux[1])
    /\ XIsFinite(last.res.flux[2])
    /\ XIsNaN(last.res.emf[1])

---------------------------------------------------------------------------
(* Claims about sequences of invocations.                                  *)

\* C10: after any sequence of invocations, those that ended in an error
\* included, two invocations of the same function with equal parameters
\* have equal outcomes and equal datasets whatever was invoked before them,
\* and the module constants q and m still hold the values the notebook
\* gave them.
C10_Pure ==
    /\ q = q_value
    /\ m = m_value
    /\ \A i \in 1..Len(calls) : \A j \in 1..Len(calls) :
          (calls[i].fn = calls[j].fn /\ calls[i].args = calls[j].args)
              => calls[i].res = calls[j].res

\* the same trajectory computed before and after an invocation that ended
\* in an error
C10_Witness ==
    /\ Len(calls) = 3
    /\ calls[1].fn = "particle_trajectory"
    /\ calls[1].res.outcome = "returned"
    /\ Len(calls[1].res.x) = 3
    /\ calls[2].res.outcome \in {"ZeroDivisionError", "ValueError"}
    /\ calls[3].fn = calls[1].fn
    /\ calls[3].args = calls[1].args
    /\ calls[3].res = calls[1].res

---------------------------------------------------------------------------
(* Claims about the sliders.                                               *)

Between(lo, x, hi) == RLeq(lo, x) /\ RLeq(x, hi)

\* the declared ranges: B in [1e-4, 5e-3] T, v_perp in [1e5, 5e6] m/s,
\* v_parallel in [0, 1e6] m/s
LorentzInRange(a) ==
    /\ Between(Int2Rat(1), a.B, Int2Rat(50))
    /\ Between(Int2Rat(1), a.v_perp, Int2Rat(50))
    /\ Between(Zero, a.v_parallel, Int2Rat(10))

\* the declared ranges: v and A in [0.1, 5.0], B0 and L in [0.1, 10.0],
\* N in [1, 500], duration in [1.0, 10.0]
FaradayInRange(a) ==
    /\ Between(Rat(1, 10), a.v, Int2Rat(5))
    /\ Between(Rat(1, 10), a.A, Int2Rat(5))
    /\ Between(Rat(1, 10), a.B0, Int2Rat(10))
    /\ Between(Rat(1, 10), a.L, Int2Rat(10))
    /\ Between(Int2Rat(1), a.N, Int2Rat(500))
    /\ Between(Int2Rat(1), a.duration, Int2Rat(10))

\* C11: in every state reachable by slider changes from the initial values,
\* the slider values and the values passed to the callbacks lie inside the
\* declared ranges; so no callback reaches particle_trajectory with B = 0,
\* nor faraday_simulation with a non-positive L, N or duration or with
\* fewer than two time samples, and no callback ends in an exception.
C11_SlidersInRange ==
    /\ sliders.notebook = "lorentz" => LorentzInRange(sliders.values)
    /\ sliders.notebook = "faraday" => FaradayInRange(sliders.values)
    /\ \A i \in 1..Len(calls) :
          /\ calls[i].args = sliders.values
          /\ calls[i].fn = "plot_trajectory" =>
                /\ LorentzInRange(calls[i].args)
                /\ ~RIsZero(calls[i].args.B)
                /\ calls[i].res.outcome = "returned"
          /\ calls[i].fn = "faraday_simulation" =>
                /\ FaradayInRange(calls[i].args)
                /\ RSign(calls[i].args.L) > 0
                /\ RSign(calls[i].args.N) > 0
                /\ RSign(calls[i].args.duration) > 0
                /\ calls[i].res.samples >= 2
                /\ calls[i].res.outcome = "completed"

\* the B slider was asked for 0 after another slider had moved, and the
\* callback received the slider's minimum instead
C11_Witness ==
    /\ Len(calls) = 1
    /\ calls[1].fn = "plot_trajectory"
    /\ calls[1].cause.slider = "B"
    /\ RIsZero(calls[1].cause.requested)
    /\ calls[1].args.B = Int2Rat(1)
    /\ calls[1].args.v_perp = Int2Rat(50)

\* the duration slider was asked for a negative value after L had been
\* asked for 0, and the callback ran on 100 samples
C11_WitnessFaraday ==
    /\ Len(calls) = 1
    /\ calls[1].fn = "faraday_simulation"
    /\ calls[1].cause.slider = "duration"
    /\ calls[1].cause.requested = Int2Rat(-1)
    /\ calls[1].args.duration = Int2Rat(1)
    /\ calls[1].args.L = Rat(1, 10)
    /\ calls[1].res.samples = 100

=============================================================================
